---- MODULE Spec2Model ----
(***************************************************************************)
(* RMII protocol decoder (pd.py): the sample-driven edge gate, CRS_DV /     *)
(* TX_EN demultiplexer and octet assembler of class Decoder, as a state     *)
(* machine with one step per sample delivered by self.wait().               *)
(***************************************************************************)
EXTENDS Integers, Sequences, FiniteSets, TLC

(***************************************************************************)
(* Bounds of the model.                                                     *)
(***************************************************************************)
\* no further sample is requested once samplenum has reached MaxSample
MaxSample == 6
\* the sample source advances the sample index by 1..MaxGap per wait()
MaxGap == 1
\* the bound on samplenum for captures whose data lines stay low (SpecQuiet)
MaxQuietSample == 8

(***************************************************************************)
(* Module-level constants of pd.py.                                         *)
(***************************************************************************)
BITS_PER_BYTE == 8
CHANNEL_INDEX_CLK == 0
CHANNEL_INDEX_VALID == 1
CHANNEL_INDEX_RXD1 == 2
CHANNEL_INDEX_RXD0 == 3

DIBIT_ANNOTATION_LIST_INDEX_VALUE == 0
DIBIT_ANNOTATION_LIST_INDEX_SAMPLE_START == 1
DIBIT_ANNOTATION_LIST_INDEX_SAMPLE_END == 2

ANNOTATION_CLASS_INDEX_OCTETS == 0
ANNOTATION_CLASS_INDEX_DIBITS == 1

\* len(Decoder.channels): the four required channels
NumChannels == 4

\* the values of the option valid_bit_type
ValidBitTypes == {"CRS_DV", "TX_EN"}

Bit == {0, 1}

(***************************************************************************)
(* Python integer and list primitives used by the decoder.                  *)
(***************************************************************************)
RECURSIVE BitOr(_, _)
\* a | b on non-negative integers
BitOr(a, b) ==
    IF a = 0 THEN b
    ELSE IF b = 0 THEN a
    ELSE (IF (a % 2 = 1) \/ (b % 2 = 1) THEN 1 ELSE 0) + 2 * BitOr(a \div 2, b \div 2)

RECURSIVE BitAnd(_, _)
\* a & b on non-negative integers
BitAnd(a, b) ==
    IF a = 0 \/ b = 0 THEN 0
    ELSE (IF (a % 2 = 1) /\ (b % 2 = 1) THEN 1 ELSE 0) + 2 * BitAnd(a \div 2, b \div 2)

\* a << k
Shl(a, k) == a * (2 ^ k)

\* list[i] with Python's 0-based index
At(list, i) == list[i + 1]

\* list[-1]
AtLast(list) == list[Len(list)]

\* list.insert(0, x)
InsertFront(list, x) == <<x>> \o list

HexDigits == <<"0", "1", "2", "3", "4", "5", "6", "7", "8", "9", "A", "B", "C", "D", "E", "F">>

RECURSIVE DigitsOf(_, _)
\* the digits of n in the given base, most significant first, as a sequence
\* of one-character strings
DigitsOf(n, base) ==
    IF n < base THEN <<HexDigits[n + 1]>>
    ELSE DigitsOf(n \div base, base) \o <<HexDigits[(n % base) + 1]>>

\* '%d' % n
FormatD(n) == DigitsOf(n, 10)

\* '%02X' % n: upper-case hexadecimal, zero-padded to at least two digits
Format02X(n) ==
    LET ds == DigitsOf(n, 16)
    IN  IF Len(ds) < 2 THEN <<"0">> \o ds ELSE ds

(***************************************************************************)
(* The state.                                                               *)
(***************************************************************************)
VARIABLES
    options,      \* self.options['valid_bit_type'], fixed for a run
    channels,     \* the channel indices for which self.has_channel() is true
    pc,           \* position of decode(): "start", "loop" or "error"
    crs,          \* self.crs
    dv,           \* self.dv
    bitcount,     \* self.bitcount
    octet,        \* self.octet
    dibits,       \* self.dibits: newest first, each <<value, start, end>>
    samplenum,    \* self.samplenum, -1 before the first wait() returns
    requested,    \* TRUE once self.wait() has been called
    emitted,      \* the self.put() calls of the most recent step, in order
    hist,         \* the samples <<dibit1, dibit0, samplenum>> clocked in for the
                  \* byte in progress; the four of a completed byte stay until
                  \* the next sample is handled
    last,         \* the most recent step: its sample (first, matched, clk, valid),
                  \* self.bitcount when it arrived, and the way it was handled
    bytesOut      \* the start samples of all Byte events put so far, in order

vars == <<options, channels, pc, crs, dv, bitcount, octet, dibits, samplenum,
          requested, emitted, hist, last, bytesOut>>

\* the fields of self that the sample handlers read and write, together with
\* the put() calls made (out) and the way handle_dibit was left (path)
Self ==
    [crs |-> crs, dv |-> dv, bitcount |-> bitcount, octet |-> octet,
     dibits |-> dibits, out |-> <<>>, path |-> "none"]

(***************************************************************************)
(* The methods of Decoder.                                                  *)
(***************************************************************************)
\* reset_decoder_state that forgets to clear self.octet
reset_decoder_state_KeepOctet(self) ==
    [self EXCEPT !.bitcount = 0, !.dibits = <<>>]

\* reset_decoder_state that forgets to clear self.dibits
reset_decoder_state_KeepDibits(self) ==
    [self EXCEPT !.bitcount = 0, !.octet = 0]

\* reset_decoder_state clearing the carrier-sense and data-valid flags too
reset_decoder_state_ClearFlags(self) ==
    [self EXCEPT !.bitcount = 0, !.octet = 0, !.dibits = <<>>, !.crs = 0, !.dv = 0]

\* Decoder.reset_decoder_state
reset_decoder_state(self) ==
    [self EXCEPT !.bitcount = 0, !.octet = 0, !.dibits = <<>>]

\* Decoder.reset (self.samplerate plays no part in decoding)
reset ==
    reset_decoder_state(
        [crs |-> 0, dv |-> 0, bitcount |-> 0, octet |-> 0, dibits |-> <<>>,
         out |-> <<>>, path |-> "none"])

\* self.put(ss, es, self.out_ann, [cls, [label]])
Put(ss, es, cls, label) == [ss |-> ss, es |-> es, cls |-> cls, label |-> label]

\* putdata taking the start of the Byte event from the newest record
putdata_ByteFromNewest(self) ==
    LET dibitAnn(dibit) ==
            Put(At(dibit, DIBIT_ANNOTATION_LIST_INDEX_SAMPLE_START),
                At(dibit, DIBIT_ANNOTATION_LIST_INDEX_SAMPLE_END),
                ANNOTATION_CLASS_INDEX_DIBITS,
                FormatD(At(dibit, DIBIT_ANNOTATION_LIST_INDEX_VALUE)))
        octetAnn ==
            Put(At(At(self.dibits, 0), DIBIT_ANNOTATION_LIST_INDEX_SAMPLE_START),
                At(At(self.dibits, 0), DIBIT_ANNOTATION_LIST_INDEX_SAMPLE_END),
                ANNOTATION_CLASS_INDEX_OCTETS,
                Format02X(self.octet))
    IN  [self EXCEPT !.out = self.out
                              \o [i \in 1..Len(self.dibits) |-> dibitAnn(self.dibits[i])]
                              \o <<octetAnn>>]

\* Decoder.putdata
putdata(self) ==
    LET dibitAnn(dibit) ==
            Put(At(dibit, DIBIT_ANNOTATION_LIST_INDEX_SAMPLE_START),
                At(dibit, DIBIT_ANNOTATION_LIST_INDEX_SAMPLE_END),
                ANNOTATION_CLASS_INDEX_DIBITS,
                FormatD(At(dibit, DIBIT_ANNOTATION_LIST_INDEX_VALUE)))
        octetAnn ==
            Put(At(AtLast(self.dibits), DIBIT_ANNOTATION_LIST_INDEX_SAMPLE_START),
                At(At(self.dibits, 0), DIBIT_ANNOTATION_LIST_INDEX_SAMPLE_END),
                ANNOTATION_CLASS_INDEX_OCTETS,
                Format02X(self.octet))
    IN  [self EXCEPT !.out = self.out
                              \o [i \in 1..Len(self.dibits) |-> dibitAnn(self.dibits[i])]
                              \o <<octetAnn>>]

\* the de-multiplexer with TX_EN updating self.dv only
Demux_TxEnDvOnly(self, opt, valid) ==
    IF opt = "TX_EN"
    THEN [self |-> [self EXCEPT !.dv = valid], dv_updated |-> TRUE]
    ELSE IF BitAnd(self.bitcount, 2) = 0
    THEN [self |-> [self EXCEPT !.crs = valid], dv_updated |-> FALSE]
    ELSE [self |-> [self EXCEPT !.dv = valid], dv_updated |-> TRUE]

\* the de-multiplexer with the CRS and DV phases of CRS_DV exchanged
Demux_PhasesSwapped(self, opt, valid) ==
    IF opt = "TX_EN"
    THEN [self |-> [self EXCEPT !.crs = valid, !.dv = valid], dv_updated |-> TRUE]
    ELSE IF BitAnd(self.bitcount, 2) # 0
    THEN [self |-> [self EXCEPT !.crs = valid], dv_updated |-> FALSE]
    ELSE [self |-> [self EXCEPT !.dv = valid], dv_updated |-> TRUE]

\* the de-multiplexer with TX_EN not marking data-valid as freshly updated
Demux_TxEnNotFresh(self, opt, valid) ==
    IF opt = "TX_EN"
    THEN [self |-> [self EXCEPT !.crs = valid, !.dv = valid], dv_updated |-> FALSE]
    ELSE IF BitAnd(self.bitcount, 2) = 0
    THEN [self |-> [self EXCEPT !.crs = valid], dv_updated |-> FALSE]
    ELSE [self |-> [self EXCEPT !.dv = valid], dv_updated |-> TRUE]

\* handle_dibit, lines 113-127: de-multiplex CRS_DV; yields the updated self
\* and the local dv_updated
Demux(self, opt, valid) ==
    IF opt = "TX_EN"
    THEN [self |-> [self EXCEPT !.crs = valid, !.dv = valid], dv_updated |-> TRUE]
    ELSE IF BitAnd(self.bitcount, 2) = 0
    THEN [self |-> [self EXCEPT !.crs = valid], dv_updated |-> FALSE]
    ELSE [self |-> [self EXCEPT !.dv = valid], dv_updated |-> TRUE]

\* the di-bit with the two data lines exchanged
Dibit_Swapped(dibit1, dibit0) == BitOr(Shl(dibit0, 1), dibit1)

\* handle_dibit, line 140: the di-bit of a sample
Dibit(dibit1, dibit0) == BitOr(Shl(dibit1, 1), dibit0)

\* clocking in with one slip, named by v: "oldest" extrapolates the end from
\* the first record of the byte, "noextend" leaves the previous record's end
\* alone, "extendoldest" revises the end of the oldest record, "shift"
\* shifts the di-bit by half the bit count, "noextrapolate" leaves the
\* provisional end at the sample index
ClockIn_Slip(self, num, dibit1, dibit0, v) ==
    LET dibit == Dibit(dibit1, dibit0)
        oct == BitOr(self.octet,
                     Shl(dibit, IF v = "shift" THEN self.bitcount \div 2 ELSE self.bitcount))
        prev == IF v = "oldest" THEN AtLast(self.dibits) ELSE At(self.dibits, 0)
        sample_end ==
            IF self.bitcount > 0 /\ v # "noextrapolate"
            THEN num + (num - At(prev, DIBIT_ANNOTATION_LIST_INDEX_SAMPLE_START))
            ELSE num
        inserted == InsertFront(self.dibits, <<dibit, num, sample_end>>)
        extended ==
            IF self.bitcount > 0 /\ v # "noextend"
            THEN [inserted EXCEPT ![IF v = "extendoldest" THEN Len(inserted) ELSE 2] =
                     [@ EXCEPT ![DIBIT_ANNOTATION_LIST_INDEX_SAMPLE_END + 1] = num]]
            ELSE inserted
        advanced == [self EXCEPT !.octet = oct, !.dibits = extended,
                                 !.bitcount = self.bitcount + 2]
    IN  IF advanced.bitcount = BITS_PER_BYTE
        THEN [reset_decoder_state(putdata(advanced)) EXCEPT !.path = "byte"]
        ELSE [advanced EXCEPT !.path = "clocked"]

\* clocking in with the provisional end left at the sample index
ClockIn_NoExtrapolation(self, num, dibit1, dibit0) ==
    ClockIn_Slip(self, num, dibit1, dibit0, "noextrapolate")

\* clocking in without closing the interval of the previous record
ClockIn_NoExtend(self, num, dibit1, dibit0) ==
    ClockIn_Slip(self, num, dibit1, dibit0, "noextend")

\* clocking in with the end extrapolated from the first symbol of the byte
ClockIn_EndFromOldest(self, num, dibit1, dibit0) ==
    ClockIn_Slip(self, num, dibit1, dibit0, "oldest")

\* clocking in with the end of the oldest record revised instead of the
\* previous one
ClockIn_ExtendOldest(self, num, dibit1, dibit0) ==
    ClockIn_Slip(self, num, dibit1, dibit0, "extendoldest")

\* clocking in with the di-bit shifted by half the bit count
ClockIn_HalfShift(self, num, dibit1, dibit0) ==
    ClockIn_Slip(self, num, dibit1, dibit0, "shift")

\* clocking in without the reset that follows putdata
ClockIn_NoReset(self, num, dibit1, dibit0) ==
    LET dibit == Dibit(dibit1, dibit0)
        oct == BitOr(self.octet, Shl(dibit, self.bitcount))
        sample_end ==
            IF self.bitcount > 0
            THEN num + (num - At(At(self.dibits, 0), DIBIT_ANNOTATION_LIST_INDEX_SAMPLE_START))
            ELSE num
        inserted == InsertFront(self.dibits, <<dibit, num, sample_end>>)
        extended ==
            IF self.bitcount > 0
            THEN [inserted EXCEPT ![2] =
                     [@ EXCEPT ![DIBIT_ANNOTATION_LIST_INDEX_SAMPLE_END + 1] = num]]
            ELSE inserted
        advanced == [self EXCEPT !.octet = oct, !.dibits = extended,
                                 !.bitcount = self.bitcount + 2]
    IN  IF advanced.bitcount = BITS_PER_BYTE
        THEN [putdata(advanced) EXCEPT !.path = "byte"]
        ELSE [advanced EXCEPT !.path = "clocked"]

\* handle_dibit, lines 139-163: clock in a di-bit and emit a completed byte
ClockIn(self, num, dibit1, dibit0) ==
    LET dibit == Dibit(dibit1, dibit0)
        oct == BitOr(self.octet, Shl(dibit, self.bitcount))
        sample_end ==
            IF self.bitcount > 0
            THEN num + (num - At(At(self.dibits, 0), DIBIT_ANNOTATION_LIST_INDEX_SAMPLE_START))
            ELSE num
        inserted == InsertFront(self.dibits, <<dibit, num, sample_end>>)
        extended ==
            IF self.bitcount > 0
            THEN [inserted EXCEPT ![2] =
                     [@ EXCEPT ![DIBIT_ANNOTATION_LIST_INDEX_SAMPLE_END + 1] = num]]
            ELSE inserted
        advanced == [self EXCEPT !.octet = oct, !.dibits = extended,
                                 !.bitcount = self.bitcount + 2]
    IN  IF advanced.bitcount = BITS_PER_BYTE
        THEN [reset_decoder_state(putdata(advanced)) EXCEPT !.path = "byte"]
        ELSE [advanced EXCEPT !.path = "clocked"]

\* handle_dibit without the check for freshly updated, false data-valid
handle_dibit_NoInvalidCheck(self, opt, num, clk, valid, dibit1, dibit0) ==
    LET d == Demux(self, opt, valid)
    IN  IF d.self.crs = 0 /\ d.self.dv = 0
        THEN [reset_decoder_state(d.self) EXCEPT !.path = "idle"]
        ELSE ClockIn(d.self, num, dibit1, dibit0)

\* handle_dibit taking the bus for idle when either flag is false
handle_dibit_IdleIfEither(self, opt, num, clk, valid, dibit1, dibit0) ==
    LET d == Demux(self, opt, valid)
    IN  IF d.dv_updated /\ d.self.dv = 0
        THEN [reset_decoder_state(d.self) EXCEPT !.path = "invalid"]
        ELSE IF d.self.crs = 0 \/ d.self.dv = 0
        THEN [reset_decoder_state(d.self) EXCEPT !.path = "idle"]
        ELSE ClockIn(d.self, num, dibit1, dibit0)

\* Decoder.handle_dibit
handle_dibit(self, opt, num, clk, valid, dibit1, dibit0) ==
    LET d == Demux(self, opt, valid)
    IN  IF d.dv_updated /\ d.self.dv = 0
        THEN [reset_decoder_state(d.self) EXCEPT !.path = "invalid"]
        ELSE IF d.self.crs = 0 /\ d.self.dv = 0
        THEN [reset_decoder_state(d.self) EXCEPT !.path = "idle"]
        ELSE ClockIn(d.self, num, dibit1, dibit0)

\* the edge gate without the test of self.matched
EdgeGate_AnyChange(opt, matched, clk, first) ==
    IF first THEN FALSE
    ELSE IF opt = "TX_EN" THEN clk = 0
    ELSE clk # 0

\* the edge gate without the test of first
EdgeGate_FirstCounts(opt, matched, clk, first) ==
    IF ~matched THEN FALSE
    ELSE IF opt = "TX_EN" THEN clk = 0
    ELSE clk # 0

\* find_clk_edge, lines 166-179: TRUE when the sample is passed on to
\* handle_dibit; matched is self.matched[CHANNEL_INDEX_CLK]
EdgeGate(opt, matched, clk, first) ==
    IF first \/ ~matched THEN FALSE
    ELSE IF opt = "TX_EN" THEN clk = 0
    ELSE clk # 0

\* find_clk_edge discarding the partial byte when it drops a sample
find_clk_edge_ResetOnDrop(self, opt, num, matched, clk, valid, dibit1, dibit0, first) ==
    IF EdgeGate(opt, matched, clk, first)
    THEN handle_dibit(self, opt, num, clk, valid, dibit1, dibit0)
    ELSE [reset_decoder_state(self) EXCEPT !.path = "dropped"]

\* Decoder.find_clk_edge
find_clk_edge(self, opt, num, matched, clk, valid, dibit1, dibit0, first) ==
    IF EdgeGate(opt, matched, clk, first)
    THEN handle_dibit(self, opt, num, clk, valid, dibit1, dibit0)
    ELSE [self EXCEPT !.path = "dropped"]

\* the channel check stopping one channel short
MissingChannel_OffByOne(present) ==
    IF \E c \in 0..(NumChannels - 2) : c \notin present
    THEN CHOOSE c \in 0..(NumChannels - 2) :
             /\ c \notin present
             /\ \A b \in 0..(c - 1) : b \in present
    ELSE NumChannels

\* decode, lines 186-188: the first required channel that is absent, or
\* NumChannels when all are present
MissingChannel(present) ==
    IF \E c \in 0..(NumChannels - 1) : c \notin present
    THEN CHOOSE c \in 0..(NumChannels - 1) :
             /\ c \notin present
             /\ \A b \in 0..(c - 1) : b \in present
    ELSE NumChannels

(***************************************************************************)
(* Initial state: a constructed Decoder (__init__ calls reset) with its     *)
(* option and channel assignment made, decode() not yet entered.            *)
(***************************************************************************)
NoSample ==
    [first |-> FALSE, matched |-> FALSE, clk |-> 0, valid |-> 0, bitcount |-> 0,
     path |-> "none"]

Init ==
    /\ options \in ValidBitTypes
    /\ channels \in SUBSET (0..(NumChannels - 1))
    /\ pc = "start"
    /\ crs = reset.crs
    /\ dv = reset.dv
    /\ bitcount = reset.bitcount
    /\ octet = reset.octet
    /\ dibits = reset.dibits
    /\ samplenum = -1
    /\ requested = FALSE
    /\ emitted = <<>>
    /\ hist = <<>>
    /\ last = NoSample
    /\ bytesOut = <<>>

(***************************************************************************)
(* Steps of decode().                                                       *)
(***************************************************************************)
\* the effect on the state of one sample handed to find_clk_edge
Handle(num, matched, clk, valid, dibit1, dibit0, first) ==
    \E r \in {find_clk_edge(Self, options, num, matched, clk, valid, dibit1, dibit0, first)} :
        /\ crs' = r.crs
        /\ dv' = r.dv
        /\ bitcount' = r.bitcount
        /\ octet' = r.octet
        /\ dibits' = r.dibits
        /\ emitted' = r.out
        /\ hist' = LET inProgress == IF last.path = "byte" THEN <<>> ELSE hist
                   IN  CASE r.path \in {"clocked", "byte"} ->
                                Append(inProgress, <<dibit1, dibit0, num>>)
                         [] r.path = "dropped" -> inProgress
                         [] OTHER -> <<>>
        /\ last' = [first |-> first, matched |-> matched, clk |-> clk, valid |-> valid,
                    bitcount |-> bitcount, path |-> r.path]
        /\ bytesOut' = bytesOut
                         \o SelectSeq([i \in 1..Len(r.out) |->
                                          IF r.out[i].cls = ANNOTATION_CLASS_INDEX_OCTETS
                                          THEN r.out[i].ss ELSE -1],
                                      LAMBDA s : s >= 0)
        /\ samplenum' = num
        /\ requested' = TRUE

\* decode, lines 186-188: a required channel is absent, ChannelError is raised
DecodeChannelError ==
    /\ pc = "start"
    /\ MissingChannel(channels) < NumChannels
    /\ pc' = "error"
    /\ UNCHANGED <<options, channels, crs, dv, bitcount, octet, dibits, samplenum,
                   requested, emitted, hist, last, bytesOut>>

\* decode, lines 186-199: all channels present; the first sample is fetched
\* with wait({}) and handed to find_clk_edge with first = True
DecodeFirstSample ==
    /\ pc = "start"
    /\ MissingChannel(channels) = NumChannels
    /\ \E clk \in Bit, valid \in Bit, dibit1 \in Bit, dibit0 \in Bit, matched \in BOOLEAN :
           Handle(0, matched, clk, valid, dibit1, dibit0, TRUE)
    /\ pc' = "loop"
    /\ UNCHANGED <<options, channels>>

\* decode, lines 202-204: one turn of the loop, wait(wait_cond) and
\* find_clk_edge with first = False
DecodeNextSample ==
    /\ pc = "loop"
    /\ samplenum < MaxSample
    /\ \E gap \in 1..MaxGap, clk \in Bit, valid \in Bit, dibit1 \in Bit, dibit0 \in Bit,
          matched \in BOOLEAN :
           Handle(samplenum + gap, matched, clk, valid, dibit1, dibit0, FALSE)
    /\ pc' = "loop"
    /\ UNCHANGED <<options, channels>>

Next ==
    \/ DecodeChannelError
    \/ DecodeFirstSample
    \/ DecodeNextSample

Spec == Init /\ [][Next]_vars

(***************************************************************************)
(* The same decoder on a capture whose two data lines stay low: the sample  *)
(* indices, the clock, the valid line and the matched flag are as free as   *)
(* in Spec, and the run is long enough for two bytes.                       *)
(***************************************************************************)
\* decode, lines 202-204, with dibit1 = dibit0 = 0 in every sample
DecodeNextSampleQuiet ==
    /\ pc = "loop"
    /\ samplenum < MaxQuietSample
    /\ \E gap \in 1..MaxGap, clk \in Bit, valid \in Bit, matched \in BOOLEAN :
           Handle(samplenum + gap, matched, clk, valid, 0, 0, FALSE)
    /\ pc' = "loop"
    /\ UNCHANGED <<options, channels>>

NextQuiet ==
    \/ DecodeChannelError
    \/ DecodeFirstSample
    \/ DecodeNextSampleQuiet

SpecQuiet == Init /\ [][NextQuiet]_vars

(***************************************************************************)
(* Vocabulary of the properties.                                            *)
(***************************************************************************)
\* the most recent step handed a sample that passes the edge gate: not the
\* first one, clock flagged as changed, clock level of the mode's edge
Accepted ==
    /\ last.path # "none"
    /\ ~last.first
    /\ last.matched
    /\ last.clk = (IF options = "TX_EN" THEN 0 ELSE 1)

\* the most recent step called handle_dibit
Reached == last.path \in {"invalid", "idle", "clocked", "byte"}

\* self.dv is freshly updated by the most recent accepted sample
DvFresh == options = "TX_EN" \/ (last.bitcount \div 2) % 2 = 1

\* positions in emitted of the Byte events and of the Symbol events
ByteEvents == {i \in DOMAIN emitted : emitted[i].cls = ANNOTATION_CLASS_INDEX_OCTETS}
SymbolEvents == {i \in DOMAIN emitted : emitted[i].cls = ANNOTATION_CLASS_INDEX_DIBITS}

\* the value a one-character digit stands for
DigitValue(c) == CHOOSE v \in 0..15 : HexDigits[v + 1] = c

RECURSIVE NumberOf(_, _)
\* the number a label of digits reads as in the given base
NumberOf(label, base) ==
    IF label = <<>> THEN 0
    ELSE NumberOf(SubSeq(label, 1, Len(label) - 1), base) * base
         + DigitValue(label[Len(label)])

\* the symbol of a clocked-in sample <<dibit1, dibit0, samplenum>>
Symbol(h) == 2 * h[1] + h[2]

\* the decoder state that reset_decoder_state leaves
Cleared == bitcount = 0 /\ octet = 0 /\ dibits = <<>>

(***************************************************************************)
(* C1: whenever a Byte event is emitted, its value is                       *)
(* s1 | (s2 << 2) | (s3 << 4) | (s4 << 6) for the four symbols clocked in   *)
(* since the last reset, in clock-in order, each symbol being               *)
(* (dataBit1 << 1) | dataBit0 of its sample; in both bus modes.             *)
(***************************************************************************)
C1_ByteValue ==
    \A i \in ByteEvents :
        /\ Len(hist) = 4
        /\ NumberOf(emitted[i].label, 16)
             = Symbol(hist[1]) + 4 * Symbol(hist[2]) + 16 * Symbol(hist[3])
               + 64 * Symbol(hist[4])

\* the symbols 3, 1, 2, 0 have been clocked in and the byte 0x27 is emitted
C1_Witness ==
    /\ options = "TX_EN"
    /\ Len(hist) = 4
    /\ <<Symbol(hist[1]), Symbol(hist[2]), Symbol(hist[3]), Symbol(hist[4])>> = <<3, 1, 2, 0>>
    /\ \E i \in ByteEvents : emitted[i].label = <<"2", "7">>

(***************************************************************************)
(* C2: between steps bitcount is one of 0, 2, 4, 6 (8 is never a stored     *)
(* state), and a step takes bitcount from 6 back to 0 without a discard     *)
(* exactly when it clocks in the fourth consecutive symbol.                 *)
(***************************************************************************)
C2_BitcountCycle ==
    /\ bitcount \in {0, 2, 4, 6}
    /\ [][/\ bitcount' \in {0, 2, 4, 6}
          /\ (bitcount = 6 /\ bitcount' = 0 /\ emitted' # <<>>) <=> (Len(hist') = 4)]_vars

\* a step has taken bitcount from 6 to 0 by clocking in a fourth symbol
C2_Witness ==
    /\ last.bitcount = 6
    /\ bitcount = 0
    /\ Len(hist) = 4
    /\ emitted # <<>>

(***************************************************************************)
(* C3: between steps bitcount = 2 * (number of stored symbol records), so   *)
(* at most 3 records are stored, and at most 4 records exist when a byte    *)
(* is emitted.                                                              *)
(***************************************************************************)
C3_BitcountCountsRecords ==
    /\ bitcount = 2 * Len(dibits)
    /\ Len(dibits) <= 3
    /\ Cardinality(SymbolEvents) <= 4

\* three records are stored
C3_Witness ==
    /\ Len(dibits) = 3
    /\ bitcount = 6
    /\ last.path = "clocked"

(***************************************************************************)
(* C4: an accepted sample detected as invalid data (data-valid freshly      *)
(* updated and now false) or as idle bus (carrier-sense and data-valid      *)
(* both false) leaves bitcount = 0, octet = 0 and no symbol records,        *)
(* whatever was stored; nothing is clocked in, emitted or raised.           *)
(***************************************************************************)
C4_InvalidOrIdleResets ==
    (Accepted /\ ((DvFresh /\ dv = 0) \/ (crs = 0 /\ dv = 0)))
        => /\ Cleared
           /\ hist = <<>>
           /\ emitted = <<>>
           /\ pc = "loop"

\* invalid data detected with two symbols of a partial byte stored
C4_Witness ==
    /\ options = "TX_EN"
    /\ Accepted
    /\ last.bitcount = 4
    /\ dv = 0
    /\ last.path = "invalid"

(***************************************************************************)
(* C5: when valid is low on an accepted sample that freshly updates         *)
(* data-valid, every symbol clocked in since the last reset is dropped and  *)
(* never appears in an event: the stored records and every emitted event    *)
(* come from the symbols clocked in since the last reset, and a Byte event  *)
(* comes from four consecutive clock-ins with no reset between them.        *)
(***************************************************************************)
C5_DiscardedNeverEmitted ==
    /\ (Accepted /\ DvFresh /\ last.valid = 0)
           => (hist = <<>> /\ dibits = <<>> /\ emitted = <<>>)
    /\ (emitted # <<>>)
           => /\ Len(hist) = 4
              /\ ByteEvents # {}
              /\ \A i \in SymbolEvents :
                     \E k \in 1..4 : /\ emitted[i].ss = hist[k][3]
                                     /\ NumberOf(emitted[i].label, 10) = Symbol(hist[k])
    /\ IF Len(hist) = 4
       THEN dibits = <<>>
       ELSE /\ Len(dibits) = Len(hist)
            /\ \A k \in 1..Len(hist) :
                   LET rec == dibits[Len(hist) - k + 1]
                   IN  /\ rec[DIBIT_ANNOTATION_LIST_INDEX_SAMPLE_START + 1] = hist[k][3]
                       /\ rec[DIBIT_ANNOTATION_LIST_INDEX_VALUE + 1] = Symbol(hist[k])

\* three stored symbols are discarded by a low valid on the data-valid phase
C5_Witness ==
    /\ options = "CRS_DV"
    /\ Accepted
    /\ DvFresh
    /\ last.valid = 0
    /\ last.bitcount = 6

(***************************************************************************)
(* C6: in TX_EN mode, after every accepted sample carrierSense = dataValid  *)
(* = the valid level of that sample, also when the step ends in a reset.    *)
(***************************************************************************)
C6_TxEnFlagsFollowValid ==
    (options = "TX_EN" /\ Accepted) => (crs = last.valid /\ dv = last.valid)

\* an accepted TX_EN sample with valid low after a symbol was stored
C6_Witness ==
    /\ options = "TX_EN"
    /\ Accepted
    /\ last.valid = 0
    /\ last.bitcount = 2
    /\ crs = 0
    /\ dv = 0

(***************************************************************************)
(* C7: in CRS_DV mode an accepted sample taken when bitcount & 2 = 0        *)
(* assigns valid to carrierSense and leaves dataValid unchanged, one taken  *)
(* when bitcount & 2 # 0 assigns valid to dataValid and leaves carrierSense *)
(* unchanged; no other step changes either flag.                            *)
(***************************************************************************)
C7_CrsDvDemux ==
    [][IF samplenum' # samplenum /\ Accepted'
       THEN options = "CRS_DV"
                => IF (bitcount \div 2) % 2 = 0
                   THEN crs' = last'.valid /\ dv' = dv
                   ELSE dv' = last'.valid /\ crs' = crs
       ELSE crs' = crs /\ dv' = dv]_vars

\* data-valid taken from a high valid at bitcount 6 while carrierSense
\* stays false
C7_Witness ==
    /\ options = "CRS_DV"
    /\ Accepted
    /\ last.bitcount = 6
    /\ last.valid = 1
    /\ crs = 0
    /\ dv = 1

(***************************************************************************)
(* C8: a non-first sample reaches the demultiplexer only if the clock is    *)
(* flagged as changed and its level is low in TX_EN mode, high in CRS_DV    *)
(* mode; any other sample causes no decode action.                          *)
(***************************************************************************)
C8_EdgeGate ==
    (last.path # "none" /\ ~last.first)
        => IF last.matched /\ last.clk = (IF options = "TX_EN" THEN 0 ELSE 1)
           THEN TRUE
           ELSE ~Reached /\ emitted = <<>>

\* a falling-edge sample has reached the demultiplexer in TX_EN mode
C8_Witness ==
    /\ options = "TX_EN"
    /\ ~last.first
    /\ last.matched
    /\ last.clk = 0
    /\ Reached

(***************************************************************************)
(* C9: the first sample of a run never reaches the demultiplexer, changes   *)
(* no decoder state and emits nothing, whatever its levels and the mode.    *)
(***************************************************************************)
C9_FirstSampleIgnored ==
    last.first
        => /\ ~Reached
           /\ Cleared
           /\ crs = 0
           /\ dv = 0
           /\ hist = <<>>
           /\ emitted = <<>>

\* a first sample whose clock level is the one CRS_DV triggers on
C9_Witness ==
    /\ last.first
    /\ options = "CRS_DV"
    /\ last.clk = 1
    /\ last.valid = 1
    /\ last.matched

(***************************************************************************)
(* C10: when one of the four required channels is absent, decode fails      *)
(* with a channel error before any sample is requested: no wait call, no    *)
(* state change, no event.                                                  *)
(***************************************************************************)
C10_MissingChannelFailsFirst ==
    (channels # 0..(NumChannels - 1))
        => /\ pc \in {"start", "error"}
           /\ pc = "start" => (ENABLED DecodeChannelError /\ ~ENABLED DecodeFirstSample)
           /\ ~requested
           /\ samplenum = -1
           /\ Cleared
           /\ crs = 0
           /\ dv = 0
           /\ emitted = <<>>

\* the channel error raised with only the data-bit-0 channel missing
C10_Witness ==
    /\ pc = "error"
    /\ channels = {CHANNEL_INDEX_CLK, CHANNEL_INDEX_VALID, CHANNEL_INDEX_RXD1}
    /\ ~requested

(***************************************************************************)
(* Vocabulary of the properties about the emitted events.                   *)
(***************************************************************************)
\* the sample index at which the k-th symbol of hist was clocked in
ClockedAt(k) == hist[k][3]

\* positions in emitted of the Symbol events starting at sample index n
SymbolEventsAt(n) == {i \in SymbolEvents : emitted[i].ss = n}

(***************************************************************************)
(* C11: each byte completion emits exactly four Symbol events, one per      *)
(* record with its start and value, and exactly one Byte event that starts  *)
(* at the start of the oldest record and ends at the end of the newest;     *)
(* no event is emitted at any other time.                                   *)
(***************************************************************************)
C11_ByteCompletionEvents ==
    /\ (emitted # <<>>) <=> (Len(hist) = 4)
    /\ (emitted # <<>>)
           => /\ Len(emitted) = 5
              /\ Cardinality(SymbolEvents) = 4
              /\ Cardinality(ByteEvents) = 1
              /\ \A k \in 1..4 :
                     /\ Cardinality(SymbolEventsAt(ClockedAt(k))) = 1
                     /\ \A i \in SymbolEventsAt(ClockedAt(k)) :
                            NumberOf(emitted[i].label, 10) = Symbol(hist[k])
              /\ \A b \in ByteEvents :
                     /\ emitted[b].ss = ClockedAt(1)
                     /\ \A i \in SymbolEventsAt(ClockedAt(4)) : emitted[b].es = emitted[i].es

\* a byte has completed and its five events are out
C11_Witness ==
    /\ Len(hist) = 4
    /\ Len(emitted) = 5
    /\ options = "CRS_DV"
    /\ \E b \in ByteEvents : emitted[b].ss = 1 /\ emitted[b].es > 4

(***************************************************************************)
(* C12: the four Symbol events of a byte do not overlap and are contiguous: *)
(* with the symbols clocked in at n1 < n2 < n3 < n4 the first three are     *)
(* [n1,n2), [n2,n3), [n3,n4).                                               *)
(***************************************************************************)
C12_SymbolIntervalsContiguous ==
    (emitted # <<>>)
        => /\ \A k \in 1..3 :
                  /\ SymbolEventsAt(ClockedAt(k)) # {}
                  /\ \A i \in SymbolEventsAt(ClockedAt(k)) : emitted[i].es = ClockedAt(k + 1)
           /\ \A i, j \in SymbolEvents :
                  i # j => (emitted[i].es <= emitted[j].ss \/ emitted[j].es <= emitted[i].ss)

\* a byte whose symbols were clocked in at unequal distances
C12_Witness ==
    /\ emitted # <<>>
    /\ Len(hist) = 4
    /\ ClockedAt(2) - ClockedAt(1) = 2
    /\ ClockedAt(3) - ClockedAt(2) = 1

(***************************************************************************)
(* C13: a symbol clocked in at sample index n gets the provisional end n    *)
(* when it is the first of its byte, and otherwise n + (n - p), p being     *)
(* the start of the immediately preceding symbol; so the fourth symbol and  *)
(* the Byte event end at 2*n4 - n3.                                         *)
(***************************************************************************)
C13_ProvisionalEnd ==
    /\ (last.path = "clocked")
           => /\ hist # <<>>
              /\ ClockedAt(Len(hist)) = samplenum
              /\ dibits[1][DIBIT_ANNOTATION_LIST_INDEX_SAMPLE_END + 1]
                    = IF Len(hist) = 1
                      THEN samplenum
                      ELSE samplenum + (samplenum - ClockedAt(Len(hist) - 1))
    /\ (emitted # <<>>)
           => /\ Len(hist) = 4
              /\ \A i \in ByteEvents \cup SymbolEventsAt(ClockedAt(4)) :
                     emitted[i].es = 2 * ClockedAt(4) - ClockedAt(3)

\* a third symbol stored, at another distance from the second than the
\* second is from the first
C13_Witness ==
    /\ last.path = "clocked"
    /\ Len(hist) = 3
    /\ ClockedAt(2) - ClockedAt(1) = 1
    /\ ClockedAt(3) - ClockedAt(2) = 2

(***************************************************************************)
(* C14: the end of a symbol record is revised at most once, in the step     *)
(* that clocks in the next symbol of the same byte, to that step's sample   *)
(* index; its value and start never change; the records are discarded when  *)
(* the byte completes or the state resets; the fourth record of a byte is   *)
(* never revised.                                                           *)
(***************************************************************************)
\* the event ev is a Symbol event showing the record rec
EventShows(ev, rec) ==
    /\ ev.cls = ANNOTATION_CLASS_INDEX_DIBITS
    /\ ev.ss = rec[DIBIT_ANNOTATION_LIST_INDEX_SAMPLE_START + 1]
    /\ ev.es = rec[DIBIT_ANNOTATION_LIST_INDEX_SAMPLE_END + 1]
    /\ NumberOf(ev.label, 10) = rec[DIBIT_ANNOTATION_LIST_INDEX_VALUE + 1]

C14_RecordRevisedOnce ==
    [][\/ dibits' = dibits
       \/ /\ dibits' = <<>>
          /\ (emitted' # <<>>)
                 => /\ Len(dibits) = 3
                    /\ Len(emitted') = 5
                    /\ emitted'[1].ss = samplenum'
                    /\ emitted'[1].es
                          = samplenum' + (samplenum'
                               - dibits[1][DIBIT_ANNOTATION_LIST_INDEX_SAMPLE_START + 1])
                    /\ EventShows(emitted'[2], [dibits[1] EXCEPT
                           ![DIBIT_ANNOTATION_LIST_INDEX_SAMPLE_END + 1] = samplenum'])
                    /\ EventShows(emitted'[3], dibits[2])
                    /\ EventShows(emitted'[4], dibits[3])
       \/ /\ Len(dibits') = Len(dibits) + 1
          /\ dibits'[1][DIBIT_ANNOTATION_LIST_INDEX_SAMPLE_START + 1] = samplenum'
          /\ \A i \in 1..Len(dibits) :
                 IF i = 1
                 THEN dibits'[2] = [dibits[1] EXCEPT
                          ![DIBIT_ANNOTATION_LIST_INDEX_SAMPLE_END + 1] = samplenum']
                 ELSE dibits'[i + 1] = dibits[i]]_vars

\* three records stored: the end of the oldest was set when the second was
\* clocked in and was left alone when the third was
C14_Witness ==
    /\ last.path = "clocked"
    /\ Len(dibits) = 3
    /\ dibits[3][DIBIT_ANNOTATION_LIST_INDEX_SAMPLE_END + 1]
          = dibits[2][DIBIT_ANNOTATION_LIST_INDEX_SAMPLE_START + 1]
    /\ dibits[1][DIBIT_ANNOTATION_LIST_INDEX_SAMPLE_START + 1]
          > dibits[2][DIBIT_ANNOTATION_LIST_INDEX_SAMPLE_START + 1] + 1

(***************************************************************************)
(* C15: a sample dropped by the edge gate (first sample, clock not changed  *)
(* or wrong clock level) leaves bitcount, octet, the symbol records,        *)
(* carrierSense and dataValid unchanged and emits nothing.                  *)
(***************************************************************************)
C15_DroppedSampleNoEffect ==
    [][(samplenum' # samplenum /\ ~Accepted')
           => /\ UNCHANGED <<bitcount, octet, dibits, crs, dv>>
              /\ emitted' = <<>>]_vars

\* a sample with the wrong clock level dropped while two symbols are stored
C15_Witness ==
    /\ last.path # "none"
    /\ ~last.first
    /\ last.matched
    /\ ~Accepted
    /\ last.bitcount = 4
    /\ bitcount = 4
    /\ Len(dibits) = 2
    /\ octet # 0

(***************************************************************************)
(* C16: decoding resumes after any reset: from every state with             *)
(* bitcount = 0 the next accepted sample with valid high is clocked in as   *)
(* the first symbol of a byte (bitcount 2, one record starting and ending   *)
(* at that sample); in TX_EN mode every accepted sample with valid high     *)
(* advances the byte, so four of them in a row from bitcount = 0 emit       *)
(* exactly one Byte event, with the fourth.                                 *)
(***************************************************************************)
C16_ResumesAfterReset ==
    [][(samplenum' # samplenum)
           => IF Accepted' /\ last'.valid = 1
              THEN /\ (bitcount = 0)
                          => /\ bitcount' = 2
                             /\ Len(dibits') = 1
                             /\ dibits'[1][DIBIT_ANNOTATION_LIST_INDEX_SAMPLE_START + 1]
                                   = samplenum'
                             /\ dibits'[1][DIBIT_ANNOTATION_LIST_INDEX_SAMPLE_END + 1]
                                   = samplenum'
                   /\ (options = "TX_EN")
                          => /\ bitcount' = (bitcount + 2) % 8
                             /\ Cardinality(ByteEvents') = (IF bitcount = 6 THEN 1 ELSE 0)
              ELSE Accepted' \/ (bitcount' = bitcount /\ ByteEvents' = {})]_vars

\* a first symbol clocked in after a completed byte: dataValid is still
\* true from that byte
C16_Witness ==
    /\ options = "CRS_DV"
    /\ Accepted
    /\ last.valid = 1
    /\ last.bitcount = 0
    /\ bitcount = 2
    /\ dv = 1
    /\ Len(dibits) = 1

(***************************************************************************)
(* C17: in TX_EN mode an accepted sample clocks in a symbol if and only if  *)
(* its valid level is high; with valid low the step resets through the      *)
(* invalid-data branch, and the idle-bus branch is never the one taken.     *)
(***************************************************************************)
C17_TxEnNeverIdle ==
    (options = "TX_EN" /\ Accepted)
        => /\ (last.valid = 1) <=> (last.path \in {"clocked", "byte"})
           /\ (last.valid = 1) <=> (hist # <<>> /\ ClockedAt(Len(hist)) = samplenum)
           /\ (last.valid = 0) <=> (last.path = "invalid")
           /\ last.path # "idle"

\* a TX_EN sample with valid low, taken while the bus was idle already
C17_Witness ==
    /\ options = "TX_EN"
    /\ Accepted
    /\ last.valid = 0
    /\ last.bitcount = 0
    /\ last.path = "invalid"
    /\ samplenum >= 2

(***************************************************************************)
(* C18: the reset on idle, invalid data and byte completion clears only     *)
(* bitcount, octet and the records and leaves carrierSense and dataValid    *)
(* as the step's de-multiplexing set them; so in CRS_DV mode an accepted    *)
(* sample at bitcount & 2 = 0 clocks in a symbol if and only if valid is    *)
(* high or the retained dataValid is true, also on a low valid line.        *)
(***************************************************************************)
C18_ResetKeepsFlags ==
    [][(samplenum' # samplenum /\ Accepted')
           => /\ (bitcount' = 0)
                     => /\ octet' = 0
                        /\ dibits' = <<>>
                        /\ IF options = "TX_EN"
                           THEN crs' = last'.valid /\ dv' = last'.valid
                           ELSE IF (bitcount \div 2) % 2 = 0
                           THEN crs' = last'.valid /\ dv' = dv
                           ELSE dv' = last'.valid /\ crs' = crs
              /\ (options = "CRS_DV" /\ (bitcount \div 2) % 2 = 0)
                     => ((last'.valid = 1 \/ dv = 1)
                            <=> /\ Len(dibits') = Len(dibits) + 1
                                /\ bitcount' = bitcount + 2
                                /\ hist' # <<>>
                                /\ hist'[Len(hist')][3] = samplenum')]_vars

\* a symbol clocked in at bitcount 0 on a low valid line: dataValid is
\* retained from the byte completed before
C18_Witness ==
    /\ options = "CRS_DV"
    /\ Accepted
    /\ last.bitcount = 0
    /\ last.valid = 0
    /\ last.path = "clocked"
    /\ crs = 0
    /\ dv = 1
    /\ bitcount = 2

(***************************************************************************)
(* C19: between steps 0 <= octet < 2^bitcount, the octet being the symbols  *)
(* clocked in so far packed two bits each without collision; every         *)
(* emitted byte value is in 0..255 and every emitted symbol value in 0..3.  *)
(***************************************************************************)
RECURSIVE Packed(_)
\* the symbols of h packed least significant first, two bits each
Packed(h) ==
    IF h = <<>> THEN 0
    ELSE Symbol(h[1]) + 4 * Packed(Tail(h))

C19_OctetWithinBitcount ==
    /\ 0 <= octet
    /\ octet < 2 ^ bitcount
    /\ (Len(hist) < 4) => octet = Packed(hist)
    /\ \A i \in ByteEvents :
           /\ Len(emitted[i].label) = 2
           /\ NumberOf(emitted[i].label, 16) \in 0..255
    /\ \A i \in SymbolEvents :
           /\ Len(emitted[i].label) = 1
           /\ NumberOf(emitted[i].label, 10) \in 0..3

\* three symbols stored with the top bit of the third set
C19_Witness ==
    /\ bitcount = 6
    /\ octet >= 32
    /\ octet % 4 = 3
    /\ last.path = "clocked"

(***************************************************************************)
(* C20: with strictly increasing sample indices every emitted Symbol and    *)
(* Byte event starts before it ends, the stored records have strictly       *)
(* decreasing starts from newest to oldest, and Byte events are emitted in  *)
(* strictly increasing order of their starts, each after the four Symbol    *)
(* events of its byte.                                                      *)
(***************************************************************************)
C20_EventsOrdered ==
    /\ \A i \in DOMAIN emitted : emitted[i].ss < emitted[i].es
    /\ \A i \in 1..(Len(dibits) - 1) :
           dibits[i][DIBIT_ANNOTATION_LIST_INDEX_SAMPLE_START + 1]
              > dibits[i + 1][DIBIT_ANNOTATION_LIST_INDEX_SAMPLE_START + 1]
    /\ \A i \in 1..(Len(bytesOut) - 1) : bytesOut[i] < bytesOut[i + 1]
    /\ (emitted # <<>>)
           => /\ ByteEvents = {Len(emitted)}
              /\ SymbolEvents = 1..4
              /\ bytesOut # <<>>
              /\ bytesOut[Len(bytesOut)] = emitted[Len(emitted)].ss

\* the second Byte event of a run has just been emitted
C20_Witness ==
    /\ Len(bytesOut) = 2
    /\ emitted # <<>>
    /\ bytesOut[2] = emitted[5].ss

====
